---- MODULE Spec2Model ----
(***************************************************************************)
(* Window::MediaPreviewWidget (window/window_media_preview.cpp) and the     *)
(* Linux platform hooks (ui/platform/linux/ui_platform_utility_linux.h)     *)
(* as a state machine.  All handlers run on the UI thread, one at a time,   *)
(* so every handler is one atomic action.                                   *)
(***************************************************************************)
EXTENDS Integers, Sequences, FiniteSets, TLC

VARIABLES
    hidden,         \* QWidget::isHidden()
    hiding,         \* _hiding
    a_shown,        \* _a_shown: the fade animation
    photo,          \* _photo
    document,       \* _document
    emojiList,      \* _emojiList
    cache,          \* _cache
    cacheStatus,    \* _cacheStatus
    cachedSize,     \* _cachedSize
    lottie,         \* _lottie
    gif,            \* _gif
    media,          \* load state of the previewed item's data (DocumentData / PhotoData)
    wsize,          \* QWidget::width(), height()
    updatePending,  \* a repaint requested by update() and not yet delivered
    gifPaused,      \* the controller's GifPauseReason::MediaPreview
    screen,         \* what the last paintEvent drew
    cfg,            \* interface scale (cScale) and cIntRetinaFactor
    platformRet     \* what the last Ui::Platform call returned

wvars == <<hidden, hiding, a_shown, photo, document, emojiList, cache,
           cacheStatus, cachedSize, lottie, gif, media, wsize, updatePending,
           gifPaused, screen, cfg>>
vars == <<hidden, hiding, a_shown, photo, document, emojiList, cache,
          cacheStatus, cachedSize, lottie, gif, media, wsize, updatePending,
          gifPaused, screen, cfg, platformRet>>

----------------------------------------------------------------------------
(* Bounds of the model. *)

\* ticks of the animation manager one fade takes
AnimSteps == 2

\* emoji a sticker set lists for the large static sticker (more than the limit)
SetEmojiCount == 12

(* Program constants. *)

kStickerPreviewEmojiLimit == 10

----------------------------------------------------------------------------
(* Values. *)

Size(w, h) == [w |-> w, h |-> h]

\* QSize(): the default constructed, invalid size
NullSize == Size(-1, -1)

\* QSize::isEmpty()
isEmpty(s) == s.w <= 0 \/ s.h <= 0

qMax(a, b) == IF a >= b THEN a ELSE b

NoItem == [id |-> "none", cls |-> "none", kind |-> "none", w |-> 0, h |-> 0,
           gw |-> 0, gh |-> 0, set |-> -1, alt |-> FALSE]

Doc(id, kind, w, h, gw, gh, set, alt) ==
    [id |-> id, cls |-> "document", kind |-> kind, w |-> w, h |-> h,
     gw |-> gw, gh |-> gh, set |-> set, alt |-> alt]

Photo(id, w, h) ==
    [id |-> id, cls |-> "photo", kind |-> "photo", w |-> w, h |-> h,
     gw |-> 0, gh |-> 0, set |-> -1, alt |-> FALSE]

\* The documents a caller may pass: w, h are DocumentData::dimensions, gw, gh
\* the frame size the clip reader reports, set the number of emoji the sticker
\* set lists for it (-1: the set is not known), alt whether sticker->alt is an
\* emoji.
Documents ==
    { Doc("sticker", "sticker", 512, 512, 0, 0, SetEmojiCount, TRUE),
      Doc("smallSticker", "sticker", 100, 60, 0, 0, -1, TRUE),
      Doc("animatedSticker", "animatedSticker", 512, 512, 0, 0, -1, FALSE),
      Doc("gif", "gif", 640, 360, 320, 180, -1, FALSE),
      Doc("videoMessage", "videoMessage", 240, 240, 240, 240, -1, FALSE),
      Doc("file", "file", 0, 0, 0, 0, -1, FALSE) }

Photos == { Photo("photo", 1280, 720), Photo("smallPhoto", 100, 80) }

WidgetSizes == { Size(800, 600), Size(400, 300) }

\* the interface scale (cScale(), in percent) and cIntRetinaFactor() of a run
Configs == { [scale |-> 150, retina |-> 1], [scale |-> 100, retina |-> 2] }

\* DocumentData::sticker(), isAnimation(), isVideoMessage()
IsSticker(d) == d.kind \in {"sticker", "animatedSticker"}
IsAnimated(d) == d.kind = "animatedSticker"
IsAnimation(d) == d.kind \in {"gif", "videoMessage"}
IsVideoMessage(d) == d.kind = "videoMessage"

\* QPixmap
NullPixmap == [src |-> "null", item |-> "none", w |-> 0, h |-> 0]
Pixmap(src, item, w, h) == [src |-> src, item |-> item, w |-> w, h |-> h]

\* std::unique_ptr<Lottie::SinglePlayer>
NoLottie == [ptr |-> "null", ready |-> FALSE, w |-> 0, h |-> 0]

\* Media::Clip::ReaderPointer: null, bad, or a reader with its state
NoGif == [ptr |-> "null", state |-> "none", started |-> FALSE, w |-> 0, h |-> 0]
BadGif == [ptr |-> "bad", state |-> "none", started |-> FALSE, w |-> 0, h |-> 0]

\* Ui::Animations::Simple
NoAnimation == [animating |-> FALSE, from |-> 0, to |-> 0, step |-> 0]

\* The load state of the previewed item's data: the file (loaded), the sticker's
\* large image (large) and the best thumbnail at hand (thumb).
NoMedia == [loaded |-> FALSE, large |-> FALSE, thumb |-> "none"]

MediaStates(item) ==
    CASE item.cls = "photo" ->
             [loaded : BOOLEAN, large : {FALSE},
              thumb : {"none", "inline", "small", "thumbnail"}]
      [] item.kind = "sticker" ->
             [loaded : {FALSE}, large : BOOLEAN, thumb : {"none", "thumbnail"}]
      [] item.kind = "animatedSticker" ->
             [loaded : BOOLEAN, large : BOOLEAN, thumb : {"none", "thumbnail"}]
      [] item.kind = "gif" ->
             [loaded : BOOLEAN, large : {FALSE},
              thumb : {"none", "inline", "thumbnail"}]
      [] OTHER -> {NoMedia}

----------------------------------------------------------------------------
(* Collaborators: the style sheet, the image and the animation helpers. *)

\* style::ConvertScale(value): round(value * scale / 100. - 0.01), value >= 0
ConvertScale(value) == (value * cfg.scale + 49) \div 100

\* st::maxStickerSize (256px) and st::boxVerticalMargin (10px): the style
\* sheet's pixel values, converted to the interface scale
maxStickerSize == ConvertScale(256)
boxVerticalMargin == ConvertScale(10)

\* Image::pix(origin, w, h) and pixBlurred(origin, w, h): a pixmap of
\* w x h device independent pixels
pix(src, item, s) == Pixmap(src, item.id, s.w * cfg.retina, s.h * cfg.retina)

\* _a_shown.start(callback, from, to, st::stickerPreviewDuration)
StartAnimation(from, to) ==
    [animating |-> TRUE, from |-> from, to |-> to, step |-> 0]

\* QWidget::update(): a hidden widget gets no paint event
update(isHidden) == ~isHidden

\* Stickers::GetEmojiListFromSet(document): the emoji 1..set in the set's order
GetEmojiListFromSet(d) == [i \in 1..d.set |-> i]

----------------------------------------------------------------------------
(* MediaPreviewWidget's helpers, as functions of the fields they read. *)

\* the bounding box of currentDimensions() for the previewed item
BoundingBox ==
    IF photo # NoItem
    THEN Size(wsize.w - 2 * boxVerticalMargin, wsize.h - 2 * boxVerticalMargin)
    ELSE IF IsSticker(document)
         THEN Size(maxStickerSize, maxStickerSize)
         ELSE Size(2 * maxStickerSize, 2 * maxStickerSize)

\* the size currentDimensions() starts from, converted to the interface scale
SourceSize(gf) ==
    LET raw == IF photo # NoItem THEN Size(photo.w, photo.h)
               ELSE IF gf.ptr = "reader" /\ gf.state = "Ready"
                    THEN Size(gf.w, gf.h)
                    ELSE Size(document.w, document.h)
    IN Size(qMax(ConvertScale(raw.w), 1), qMax(ConvertScale(raw.h), 1))

\* lines 207-214: shrink to the box, width first, then height
FitToBox(result, box) ==
    LET r1 == IF result.w > box.w
              THEN Size(box.w, qMax((box.w * result.h) \div result.w, 1))
              ELSE result
    IN IF r1.h > box.h
       THEN Size(qMax((box.h * r1.w) \div r1.h, 1), box.h)
       ELSE r1

\* currentDimensions(): the size, and _cachedSize (mutable) after the call
currentDimensions(cs, gf, ch) ==
    IF ~isEmpty(cs)
    THEN [size |-> cs, cachedSize |-> cs]
    ELSE IF document = NoItem /\ photo = NoItem
    THEN LET r == Size(ch.w \div cfg.retina, ch.h \div cfg.retina)
         IN [size |-> r, cachedSize |-> r]
    ELSE LET result == FitToBox(SourceSize(gf), BoundingBox)
         IN [size |-> result,
             cachedSize |-> IF photo # NoItem THEN result ELSE cs]

\* setupLottie(): a player that renders frames of currentDimensions() *
\* cIntRetinaFactor(); it parses the content asynchronously
setupLottie(cs, gf, ch) ==
    LET s == currentDimensions(cs, gf, ch).size
    IN [ptr |-> "player", ready |-> FALSE,
        w |-> s.w * cfg.retina, h |-> s.h * cfg.retina]

\* Media::Clip::MakeReader(document, ...)
MakeReader == [ptr |-> "reader", state |-> "Reading", started |-> FALSE,
               w |-> 0, h |-> 0]

\* The mutable fields currentImage() may write.
Fields(ch, st, cs, lt, gf) ==
    [cache |-> ch, cacheStatus |-> st, cachedSize |-> cs, lottie |-> lt, gif |-> gf]

\* mutant: the sticker branch tries the thumbnail before the large image
currentImageSticker_ThumbFirst(f) ==
    IF f.cacheStatus = "CacheLoaded"
    THEN [out |-> f.cache, f |-> f]
    ELSE LET lt == IF IsAnimated(document) /\ f.lottie.ptr = "null" /\ media.loaded
                   THEN setupLottie(f.cachedSize, f.gif, f.cache)
                   ELSE f.lottie
             d == currentDimensions(f.cachedSize, f.gif, f.cache)
         IN IF lt.ptr = "player" /\ lt.ready
            THEN [out |-> NullPixmap, f |-> [f EXCEPT !.lottie = lt]]
            ELSE IF f.cacheStatus # "CacheThumbLoaded" /\ media.thumb = "thumbnail"
            THEN LET ch == pix("thumb", document, d.size)
                 IN [out |-> ch,
                     f |-> Fields(ch, "CacheThumbLoaded", d.cachedSize, lt, f.gif)]
            ELSE IF media.large
            THEN LET ch == pix("full", document, d.size)
                 IN [out |-> ch,
                     f |-> Fields(ch, "CacheLoaded", d.cachedSize, lt, f.gif)]
            ELSE [out |-> f.cache, f |-> [f EXCEPT !.lottie = lt]]

\* currentImage(), the sticker branch (lines 241-259)
currentImageSticker(f) ==
    IF f.cacheStatus = "CacheLoaded"
    THEN [out |-> f.cache, f |-> f]
    ELSE LET lt == IF IsAnimated(document) /\ f.lottie.ptr = "null" /\ media.loaded
                   THEN setupLottie(f.cachedSize, f.gif, f.cache)
                   ELSE f.lottie
             d == currentDimensions(f.cachedSize, f.gif, f.cache)
         IN IF lt.ptr = "player" /\ lt.ready
            THEN [out |-> NullPixmap, f |-> [f EXCEPT !.lottie = lt]]
            ELSE IF media.large
            THEN LET ch == pix("full", document, d.size)
                 IN [out |-> ch,
                     f |-> Fields(ch, "CacheLoaded", d.cachedSize, lt, f.gif)]
            ELSE IF f.cacheStatus # "CacheThumbLoaded" /\ media.thumb = "thumbnail"
            THEN LET ch == pix("thumb", document, d.size)
                 IN [out |-> ch,
                     f |-> Fields(ch, "CacheThumbLoaded", d.cachedSize, lt, f.gif)]
            ELSE [out |-> f.cache, f |-> [f EXCEPT !.lottie = lt]]

\* mutant: the clip branch makes a reader whenever there is none, a bad
\* pointer included
currentImageClip_IgnoresBad(f) ==
    LET gf == IF media.loaded /\ f.gif.ptr # "reader" THEN MakeReader ELSE f.gif
        d == currentDimensions(f.cachedSize, gf, f.cache)
    IN IF gf.ptr = "reader" /\ gf.started
       THEN [out |-> pix("gifFrame", document, d.size),
             f |-> [f EXCEPT !.gif = gf, !.cachedSize = d.cachedSize]]
       ELSE IF f.cacheStatus # "CacheThumbLoaded" /\ media.thumb # "none"
       THEN LET ch == pix("thumb", document, d.size)
            IN [out |-> ch,
                f |-> Fields(ch, "CacheThumbLoaded", d.cachedSize, f.lottie, gf)]
       ELSE [out |-> f.cache, f |-> [f EXCEPT !.gif = gf]]

\* currentImage(), the branch of a document that is no sticker (lines 260-289)
currentImageClip(f) ==
    LET gf == IF media.loaded /\ f.gif.ptr = "null" THEN MakeReader ELSE f.gif
        d == currentDimensions(f.cachedSize, gf, f.cache)
    IN IF gf.ptr = "reader" /\ gf.started
       THEN [out |-> pix("gifFrame", document, d.size),
             f |-> [f EXCEPT !.gif = gf, !.cachedSize = d.cachedSize]]
       ELSE IF f.cacheStatus # "CacheThumbLoaded" /\ media.thumb # "none"
       THEN LET ch == pix("thumb", document, d.size)
            IN [out |-> ch,
                f |-> Fields(ch, "CacheThumbLoaded", d.cachedSize, f.lottie, gf)]
       ELSE [out |-> f.cache, f |-> [f EXCEPT !.gif = gf]]

\* mutant: the photo branch tries the thumbnails first, whatever the status
currentImagePhoto_ThumbOverFull(f) ==
    LET d == currentDimensions(f.cachedSize, f.gif, f.cache)
    IN IF f.cacheStatus # "CacheThumbLoaded" /\ media.thumb # "none"
       THEN LET ch == pix("thumb", photo, d.size)
            IN [out |-> ch,
                f |-> Fields(ch, "CacheThumbLoaded", d.cachedSize, f.lottie, f.gif)]
       ELSE IF f.cacheStatus = "CacheLoaded"
       THEN [out |-> f.cache, f |-> f]
       ELSE IF media.loaded
       THEN LET ch == pix("full", photo, d.size)
            IN [out |-> ch,
                f |-> Fields(ch, "CacheLoaded", d.cachedSize, f.lottie, f.gif)]
       ELSE [out |-> f.cache, f |-> [f EXCEPT !.cachedSize = d.cachedSize]]

\* currentImage(), the photo branch (lines 290-314)
currentImagePhoto(f) ==
    LET d == currentDimensions(f.cachedSize, f.gif, f.cache)
    IN IF f.cacheStatus = "CacheLoaded"
       THEN [out |-> f.cache, f |-> f]
       ELSE IF media.loaded
       THEN LET ch == pix("full", photo, d.size)
            IN [out |-> ch,
                f |-> Fields(ch, "CacheLoaded", d.cachedSize, f.lottie, f.gif)]
       ELSE IF f.cacheStatus # "CacheThumbLoaded" /\ media.thumb # "none"
       THEN LET ch == pix("thumb", photo, d.size)
            IN [out |-> ch,
                f |-> Fields(ch, "CacheThumbLoaded", d.cachedSize, f.lottie, f.gif)]
       ELSE IF f.cacheStatus # "CacheThumbLoaded"
       THEN [out |-> f.cache, f |-> [f EXCEPT !.cachedSize = d.cachedSize]]
       ELSE [out |-> f.cache, f |-> f]

\* currentImage(): the pixmap it returns (out) and the fields after the call (f)
currentImage(f) ==
    IF document # NoItem
    THEN IF IsSticker(document) THEN currentImageSticker(f) ELSE currentImageClip(f)
    ELSE IF photo # NoItem THEN currentImagePhoto(f)
    ELSE [out |-> f.cache, f |-> f]

\* the fields as they are now
Now == Fields(cache, cacheStatus, cachedSize, lottie, gif)

----------------------------------------------------------------------------
(* The initial state: the widget as constructed (lines 29-39), hidden. *)

Init ==
    /\ hidden = TRUE
    /\ hiding = FALSE
    /\ a_shown = NoAnimation
    /\ photo = NoItem
    /\ document = NoItem
    /\ emojiList = <<>>
    /\ cache = NullPixmap
    /\ cacheStatus = "CacheNotLoaded"
    /\ cachedSize = NullSize
    /\ lottie = NoLottie
    /\ gif = NoGif
    /\ media = NoMedia
    /\ wsize \in WidgetSizes
    /\ updatePending = FALSE
    /\ gifPaused = FALSE
    /\ screen = NullPixmap
    /\ cfg \in Configs
    /\ platformRet = "none"

----------------------------------------------------------------------------
(* MediaPreviewWidget's handlers. *)

\* mutant: startShow() restarts the fade-in whatever state the widget is in
startShow_AlwaysFadesIn ==
    /\ cache' = NullPixmap
    /\ hidden' = FALSE
    /\ gifPaused' = (IF hidden THEN TRUE ELSE gifPaused)
    /\ hiding' = FALSE
    /\ a_shown' = StartAnimation(0, 1)
    /\ updatePending' = TRUE

\* mutant: startShow() shows the widget without enabling the pause reason
startShow_ShowsWithoutPauseReason ==
    /\ cache' = NullPixmap
    /\ IF hidden \/ a_shown.animating
       THEN /\ hidden' = FALSE
            /\ gifPaused' = gifPaused
            /\ hiding' = FALSE
            /\ a_shown' = StartAnimation(0, 1)
            /\ updatePending' = TRUE
       ELSE /\ updatePending' = update(hidden)
            /\ UNCHANGED <<hidden, gifPaused, hiding, a_shown>>

\* mutant: startShow() leaves the cached bitmap as it is
startShow_KeepsCache ==
    /\ cache' = cache
    /\ IF hidden \/ a_shown.animating
       THEN /\ hidden' = FALSE
            /\ gifPaused' = (IF hidden THEN TRUE ELSE gifPaused)
            /\ hiding' = FALSE
            /\ a_shown' = StartAnimation(0, 1)
            /\ updatePending' = TRUE
       ELSE /\ updatePending' = update(hidden)
            /\ UNCHANGED <<hidden, gifPaused, hiding, a_shown>>

\* startShow() (lines 132-144)
startShow ==
    /\ cache' = NullPixmap
    /\ IF hidden \/ a_shown.animating
       THEN /\ hidden' = FALSE
            /\ gifPaused' = (IF hidden THEN TRUE ELSE gifPaused)
            /\ hiding' = FALSE
            /\ a_shown' = StartAnimation(0, 1)
            /\ updatePending' = TRUE
       ELSE /\ updatePending' = update(hidden)
            /\ UNCHANGED <<hidden, gifPaused, hiding, a_shown>>

\* mutant: fillEmojiString() keeps the whole list of the set
fillEmojiString_NoLimit(ph, doc) ==
    IF ph # NoItem THEN <<>>
    ELSE IF IsSticker(doc)
    THEN IF doc.set >= 0
         THEN GetEmojiListFromSet(doc)
         ELSE IF doc.alt THEN <<1>> ELSE <<>>
    ELSE <<>>

\* fillEmojiString() (lines 158-173) for the item being set
fillEmojiString(ph, doc) ==
    IF ph # NoItem THEN <<>>
    ELSE IF IsSticker(doc)
    THEN IF doc.set >= 0
         THEN LET list == GetEmojiListFromSet(doc)
              IN IF Len(list) > kStickerPreviewEmojiLimit
                 THEN SubSeq(list, 1, kStickerPreviewEmojiLimit)
                 ELSE list
         ELSE IF doc.alt THEN <<1>> ELSE <<>>
    ELSE <<>>

\* resetGifAndCache() (lines 175-180)
resetGifAndCache ==
    /\ lottie' = NoLottie
    /\ gif' = NoGif
    /\ cacheStatus' = "CacheNotLoaded"
    /\ cachedSize' = NullSize

\* hidePreview() (lines 146-156)
hidePreview ==
    IF hidden
    THEN UNCHANGED wvars
    ELSE /\ cache' = (IF gif.ptr = "reader" THEN currentImage(Now).out ELSE cache)
         /\ hiding' = TRUE
         /\ a_shown' = StartAnimation(1, 0)
         /\ photo' = NoItem
         /\ document' = NoItem
         /\ resetGifAndCache
         /\ media' = NoMedia
         /\ UNCHANGED <<hidden, emojiList, wsize, updatePending, gifPaused,
                        screen, cfg>>

\* showPreview(origin, document) (lines 103-119); m is the load state the
\* document's data is in when the call arrives
showPreviewDocument(d, m) ==
    IF (~IsAnimation(d) /\ ~IsSticker(d)) \/ IsVideoMessage(d)
    THEN hidePreview
    ELSE /\ startShow
         /\ photo' = NoItem
         /\ document' = d
         /\ emojiList' = fillEmojiString(NoItem, d)
         /\ resetGifAndCache
         /\ media' = m
         /\ UNCHANGED <<wsize, screen, cfg>>

\* mutant: showPreview(photo) leaves _document as it is
showPreviewPhoto_KeepsDocument(p, m) ==
    /\ startShow
    /\ photo' = p
    /\ emojiList' = fillEmojiString(p, NoItem)
    /\ resetGifAndCache
    /\ media' = m
    /\ UNCHANGED <<document, wsize, screen, cfg>>

\* showPreview(origin, photo) (lines 121-130)
showPreviewPhoto(p, m) ==
    /\ startShow
    /\ photo' = p
    /\ document' = NoItem
    /\ emojiList' = fillEmojiString(p, NoItem)
    /\ resetGifAndCache
    /\ media' = m
    /\ UNCHANGED <<wsize, screen, cfg>>

\* paintEvent() (lines 48-97)
paintEvent ==
    LET lottieReady == lottie.ptr = "player" /\ lottie.ready
        image == IF lottieReady
                 THEN Pixmap("lottieFrame", document.id, lottie.w, lottie.h)
                 ELSE NullPixmap
        r == IF lottieReady THEN [out |-> NullPixmap, f |-> Now]
             ELSE currentImage(Now)
    IN /\ cache' = r.f.cache
       /\ cacheStatus' = r.f.cacheStatus
       /\ cachedSize' = r.f.cachedSize
       /\ lottie' = r.f.lottie
       /\ gif' = r.f.gif
       /\ updatePending' = FALSE
       /\ IF ~a_shown.animating /\ hiding
          THEN /\ hidden' = TRUE
               /\ gifPaused' = FALSE
               /\ screen' = NullPixmap
          ELSE /\ screen' = (IF lottieReady THEN image ELSE r.out)
               /\ UNCHANGED <<hidden, gifPaused>>
       /\ UNCHANGED <<hiding, a_shown, photo, document, emojiList, media,
                      wsize, cfg>>

\* resizeEvent() (lines 99-101)
resizeEvent(s) ==
    /\ wsize' = s
    /\ updatePending' = update(hidden)
    /\ UNCHANGED <<hidden, hiding, a_shown, photo, document, emojiList, cache,
                   cacheStatus, cachedSize, lottie, gif, media, gifPaused,
                   screen, cfg>>

\* clipCallback(NotificationReinit) (lines 323-334); st is the state the
\* reader is in when it notifies
clipCallbackReinit(st) ==
    LET g0 == [gif EXCEPT !.state = st,
                          !.w = IF st = "Ready" THEN document.gw ELSE 0,
                          !.h = IF st = "Ready" THEN document.gh ELSE 0]
        g1 == IF g0.state = "Error" THEN BadGif ELSE g0
        start == g1.ptr = "reader" /\ g1.state = "Ready" /\ ~g1.started
        d == currentDimensions(cachedSize, g1, cache)
    IN /\ gif' = (IF start THEN [g1 EXCEPT !.started = TRUE] ELSE g1)
       /\ cachedSize' = (IF start THEN d.cachedSize ELSE cachedSize)
       /\ updatePending' = update(hidden)
       /\ UNCHANGED <<hidden, hiding, a_shown, photo, document, emojiList,
                      cache, cacheStatus, lottie, media, wsize, gifPaused,
                      screen, cfg>>

\* clipCallback(NotificationRepaint) (lines 336-340); displayed is
\* _gif->currentDisplayed()
clipCallbackRepaint(displayed) ==
    LET d == currentDimensions(cachedSize, gif, cache)
    IN /\ cachedSize' = (IF ~displayed THEN d.cachedSize ELSE cachedSize)
       /\ updatePending' = (IF ~displayed THEN update(hidden) ELSE updatePending)
       /\ UNCHANGED <<hidden, hiding, a_shown, photo, document, emojiList,
                      cache, cacheStatus, lottie, gif, media, wsize, gifPaused,
                      screen, cfg>>

\* the Lottie::Information update (lines 231-232): the player became ready
lottieInformation ==
    /\ lottie' = [lottie EXCEPT !.ready = TRUE]
    /\ updatePending' = update(hidden)
    /\ UNCHANGED <<hidden, hiding, a_shown, photo, document, emojiList, cache,
                   cacheStatus, cachedSize, gif, media, wsize, gifPaused,
                   screen, cfg>>

\* the Lottie::DisplayFrameRequest update (lines 233-235)
lottieDisplayFrameRequest ==
    /\ cachedSize' = currentDimensions(cachedSize, gif, cache).cachedSize
    /\ updatePending' = update(hidden)
    /\ UNCHANGED <<hidden, hiding, a_shown, photo, document, emojiList, cache,
                   cacheStatus, lottie, gif, media, wsize, gifPaused, screen,
                   cfg>>

\* the downloaderTaskFinished() subscription (lines 36-38); m is the load
\* state of the previewed item's data when the download task finishes
downloaderTaskFinished(m) ==
    /\ media' = m
    /\ updatePending' = update(hidden)
    /\ UNCHANGED <<hidden, hiding, a_shown, photo, document, emojiList, cache,
                   cacheStatus, cachedSize, lottie, gif, wsize, gifPaused,
                   screen, cfg>>

\* mutant: the last tick of the animation does not call update()
animationCallback_NoFinalUpdate ==
    /\ a_shown' = (IF a_shown.step + 1 >= AnimSteps
                   THEN NoAnimation
                   ELSE [a_shown EXCEPT !.step = a_shown.step + 1])
    /\ updatePending' = (IF a_shown.step + 1 >= AnimSteps
                         THEN updatePending ELSE update(hidden))
    /\ UNCHANGED <<hidden, hiding, photo, document, emojiList, cache,
                   cacheStatus, cachedSize, lottie, gif, media, wsize,
                   gifPaused, screen, cfg>>

\* one tick of _a_shown; its callback is update() (lines 140, 152)
animationCallback ==
    /\ a_shown' = (IF a_shown.step + 1 >= AnimSteps
                   THEN NoAnimation
                   ELSE [a_shown EXCEPT !.step = a_shown.step + 1])
    /\ updatePending' = update(hidden)
    /\ UNCHANGED <<hidden, hiding, photo, document, emojiList, cache,
                   cacheStatus, cachedSize, lottie, gif, media, wsize,
                   gifPaused, screen, cfg>>

----------------------------------------------------------------------------
(* Ui::Platform on Linux (ui_platform_utility_linux.h): every hook has an    *)
(* empty body.                                                              *)

Panels == {"mainWindow", "mediaPreview"}

StartTranslucentPaint(p, e) == platformRet' = "void" /\ UNCHANGED wvars

\* mutant: InitOnTopPanel shows the widget
InitOnTopPanel_ShowsPanel(panel) ==
    /\ platformRet' = "void"
    /\ hidden' = FALSE
    /\ UNCHANGED <<hiding, a_shown, photo, document, emojiList, cache,
                   cacheStatus, cachedSize, lottie, gif, media, wsize,
                   updatePending, gifPaused, screen, cfg>>

InitOnTopPanel(panel) == platformRet' = "void" /\ UNCHANGED wvars
DeInitOnTopPanel(panel) == platformRet' = "void" /\ UNCHANGED wvars
ReInitOnTopPanel(panel) == platformRet' = "void" /\ UNCHANGED wvars
UpdateOverlayed(widget) == platformRet' = "void" /\ UNCHANGED wvars
ShowOverAll(widget, canFocus) == platformRet' = "void" /\ UNCHANGED wvars
BringToBack(widget) == platformRet' = "void" /\ UNCHANGED wvars
UseMainQueueGeneric == platformRet' = "true" /\ UNCHANGED wvars

----------------------------------------------------------------------------
(* The events the UI thread dispatches. *)

\* the previewed item, if any
CurrentItem == IF photo # NoItem THEN photo ELSE document

ThumbRank(t) ==
    CASE t = "none" -> 0 [] t = "inline" -> 1 [] t = "small" -> 2
      [] t = "thumbnail" -> 3

\* the load states a finished download task can leave the item's data in
Progress ==
    { m \in MediaStates(CurrentItem) :
        /\ media.loaded => m.loaded
        /\ media.large => m.large
        /\ ThumbRank(m.thumb) >= ThumbRank(media.thumb) }

ShowPreviewDocumentOf(docs) ==
    \E d \in docs : \E m \in MediaStates(d) :
        showPreviewDocument(d, m) /\ UNCHANGED platformRet

ShowPreviewPhotoOf(photos) ==
    \E p \in photos : \E m \in MediaStates(p) :
        showPreviewPhoto(p, m) /\ UNCHANGED platformRet

ShowPreviewDocument == ShowPreviewDocumentOf(Documents)

ShowPreviewPhoto == ShowPreviewPhotoOf(Photos)

HidePreview == hidePreview /\ UNCHANGED platformRet

PaintEvent == ~hidden /\ updatePending /\ paintEvent /\ UNCHANGED platformRet

ResizeEvent == \E s \in WidgetSizes : resizeEvent(s) /\ UNCHANGED platformRet

ClipReinit ==
    /\ gif.ptr = "reader"
    /\ \E st \in {"Ready", "Error"} : clipCallbackReinit(st)
    /\ UNCHANGED platformRet

ClipRepaint ==
    /\ gif.ptr = "reader"
    /\ \E displayed \in BOOLEAN : clipCallbackRepaint(displayed)
    /\ UNCHANGED platformRet

LottieInformation ==
    /\ lottie.ptr = "player" /\ ~lottie.ready
    /\ lottieInformation
    /\ UNCHANGED platformRet

LottieDisplayFrameRequest ==
    /\ lottie.ptr = "player" /\ lottie.ready
    /\ lottieDisplayFrameRequest
    /\ UNCHANGED platformRet

DownloaderTaskFinished ==
    \E m \in Progress : downloaderTaskFinished(m) /\ UNCHANGED platformRet

AnimationTick == a_shown.animating /\ animationCallback /\ UNCHANGED platformRet

PlatformCall ==
    \/ \E p \in Panels, e \in {"rect"} : StartTranslucentPaint(p, e)
    \/ \E panel \in Panels : InitOnTopPanel(panel)
    \/ \E panel \in Panels : DeInitOnTopPanel(panel)
    \/ \E panel \in Panels : ReInitOnTopPanel(panel)
    \/ \E widget \in Panels : UpdateOverlayed(widget)
    \/ \E widget \in Panels, canFocus \in BOOLEAN : ShowOverAll(widget, canFocus)
    \/ \E widget \in Panels : BringToBack(widget)
    \/ UseMainQueueGeneric

Next ==
    \/ ShowPreviewDocument
    \/ ShowPreviewPhoto
    \/ HidePreview
    \/ PaintEvent
    \/ ResizeEvent
    \/ ClipReinit
    \/ ClipRepaint
    \/ LottieInformation
    \/ LottieDisplayFrameRequest
    \/ DownloaderTaskFinished
    \/ AnimationTick
    \/ PlatformCall

Spec == Init /\ [][Next]_vars

----------------------------------------------------------------------------
(* The claims. *)

\* the documents showPreview(document) accepts (line 106-108)
Accepted(d) == (IsAnimation(d) \/ IsSticker(d)) /\ ~IsVideoMessage(d)

\* C1: once showPreview has accepted an item, the hiding flag is false and
\* the widget is visible for as long as the item is previewed, whatever state
\* the call arrived in: an item is previewed only on a visible widget that is
\* not hiding.
C1_StaysVisibleWhilePreviewed ==
    CurrentItem # NoItem => (~hidden /\ ~hiding)

\* C2: at most one of _photo and _document is set; an accepted
\* showPreview(document) sets the document and clears the photo,
\* showPreview(photo) sets the photo and clears the document, hidePreview on
\* a visible widget clears both.
C2_AtMostOneItem ==
    /\ photo = NoItem \/ document = NoItem
    /\ \A d \in Documents : \A m \in MediaStates(d) :
         Accepted(d) =>
            ~ENABLED (/\ showPreviewDocument(d, m)
                      /\ UNCHANGED platformRet
                      /\ ~(document' = d /\ photo' = NoItem))
    /\ \A p \in Photos : \A m \in MediaStates(p) :
            ~ENABLED (/\ showPreviewPhoto(p, m)
                      /\ UNCHANGED platformRet
                      /\ ~(photo' = p /\ document' = NoItem))
    /\ ~hidden =>
            ~ENABLED (/\ hidePreview
                      /\ UNCHANGED platformRet
                      /\ ~(photo' = NoItem /\ document' = NoItem))

\* C2's case: a photo is previewed while the screen still shows the sticker
\* previewed before it.
C2_Witness == photo.id = "photo" /\ document = NoItem /\ screen.item = "sticker"

\* the previewed item has positive source dimensions and a bounding box with
\* positive sides
PositiveInput ==
    /\ CurrentItem # NoItem
    /\ CurrentItem.w > 0 /\ CurrentItem.h > 0
    /\ BoundingBox.w > 0 /\ BoundingBox.h > 0

\* C3: for every previewed item with positive source dimensions and a bounding
\* box with positive sides, currentDimensions() returns a size with
\* 1 <= width <= box width and 1 <= height <= box height, and a source that
\* already fits the box is returned as it is.
C3_DimensionsFitBox ==
    PositiveInput =>
        LET r == currentDimensions(cachedSize, gif, cache).size
            src == SourceSize(gif)
        IN /\ 1 <= r.w /\ r.w <= BoundingBox.w
           /\ 1 <= r.h /\ r.h <= BoundingBox.h
           /\ (src.w <= BoundingBox.w /\ src.h <= BoundingBox.h) => r = src

\* C4: showPreview(document) for a document that is neither an animation nor
\* a sticker, or that is a video message, behaves like hidePreview: afterwards
\* both item references are null, a hidden widget stays hidden with all state
\* unchanged, and a visible widget starts fading out.
C4_RejectedDocumentHides ==
    \A d \in Documents :
        ~Accepted(d) =>
            ~ENABLED (/\ showPreviewDocument(d, NoMedia)
                      /\ UNCHANGED platformRet
                      /\ ~(/\ photo' = NoItem /\ document' = NoItem
                           /\ hidden => (hidden' /\ UNCHANGED wvars)
                           /\ ~hidden => (/\ hiding'
                                          /\ a_shown' = StartAnimation(1, 0))))

\* The fade, with the callers' items drawn from a smaller set and the widget
\* at one size.  The animation manager keeps ticking a running animation and
\* Qt delivers every paint event update() requested.
LiveDocuments == { d \in Documents : d.id \in {"animatedSticker", "gif"} }
LivePhotos == { p \in Photos : p.id = "smallPhoto" }

LiveInit == Init /\ wsize = Size(800, 600) /\ cfg = [scale |-> 100, retina |-> 2]

LiveNext ==
    \/ ShowPreviewDocumentOf(LiveDocuments)
    \/ ShowPreviewPhotoOf(LivePhotos)
    \/ HidePreview
    \/ PaintEvent
    \/ ClipReinit
    \/ ClipRepaint
    \/ LottieInformation
    \/ LottieDisplayFrameRequest
    \/ DownloaderTaskFinished
    \/ AnimationTick

LiveSpec ==
    LiveInit /\ [][LiveNext]_vars /\ WF_vars(AnimationTick) /\ WF_vars(PaintEvent)

\* a fade-out is under way and no item is previewed
FadingOut == ~hidden /\ hiding /\ CurrentItem = NoItem

\* paintEvent hides the widget only after the fade animation has finished
\* and only while the hiding flag is set
C5_HiddenOnlyWhenFadedOut ==
    [][(PaintEvent /\ hidden') => (~a_shown.animating /\ hiding)]_vars

\* C5 as stated: after hidePreview on a visible widget, if no showPreview
\* follows, the widget eventually becomes hidden; and paintEvent never hides
\* it while the fade animation is running or the hiding flag is false.
C5_EventuallyHidden ==
    /\ FadingOut ~> (hidden \/ CurrentItem # NoItem)
    /\ C5_HiddenOnlyWhenFadedOut

\* C5, amended: after hidePreview on a visible widget, if no showPreview and
\* no further hidePreview on the visible widget follows, the widget eventually
\* becomes hidden; and paintEvent never hides it while the fade animation is
\* running or the hiding flag is false.
C5_EventuallyHiddenUnlessRestarted ==
    /\ (<>[][~(~hidden /\ hidePreview)]_vars)
          => (FadingOut ~> (hidden \/ CurrentItem # NoItem))
    /\ C5_HiddenOnlyWhenFadedOut

\* C5's case: the widget was hidden by paintEvent after a fade-out.
C5_Witness == hidden /\ hiding /\ CurrentItem = NoItem /\ ~a_shown.animating

\* the previewed item's full image (sticker large image, loaded photo) or a
\* thumbnail of it is at hand
FullAvailable ==
    \/ document # NoItem /\ IsSticker(document) /\ media.large
    \/ photo # NoItem /\ media.loaded

ThumbAvailable ==
    /\ CurrentItem # NoItem
    /\ IF document # NoItem /\ IsSticker(document)
       THEN media.thumb = "thumbnail" ELSE media.thumb # "none"

\* what paintEvent puts on the screen, by the priority of its sources
C6_Drawn ==
    IF lottie.ptr = "player" /\ lottie.ready
    THEN screen'.src = "lottieFrame" /\ screen'.item = document.id
    ELSE IF document # NoItem /\ ~IsSticker(document)
            /\ gif.ptr = "reader" /\ gif.started
    THEN screen'.src = "gifFrame" /\ screen'.item = document.id
    ELSE /\ screen' = cache'
         /\ FullAvailable
              => (cache'.src = "full" /\ cache'.item = CurrentItem.id)
         /\ (~FullAvailable /\ ThumbAvailable)
              => (cache'.src = "thumb" /\ cache'.item = CurrentItem.id)
         /\ (cacheStatus = "CacheLoaded") => cache' = cache

\* C6: paintEvent draws the Lottie frame whenever a player exists and is
\* ready; otherwise, for a non-sticker document whose clip reader has started,
\* the reader's current frame; otherwise the cached bitmap, which is the full
\* image once that is available and a blurred thumbnail before that.  A cache
\* status of CacheLoaded means the cache holds the full image of the previewed
\* item, so no thumbnail is drawn for it.
C6_PaintSourcePriority ==
    /\ [][(PaintEvent /\ ~hidden') => C6_Drawn]_vars
    /\ [](cacheStatus = "CacheLoaded"
            => (cache.src = "full" /\ cache.item = CurrentItem.id))

\* C6's case: a Lottie frame is on the screen although the cache holds a
\* thumbnail.
C6_Witness == screen.src = "lottieFrame" /\ cache.src = "thumb" /\ ~hidden

\* C7: every Linux platform hook leaves all state unchanged for any argument,
\* and UseMainQueueGeneric returns true on every call.
C7_PlatformHooksAreNoOps ==
    /\ ~ENABLED (PlatformCall /\ wvars' # wvars)
    /\ ~ENABLED (UseMainQueueGeneric /\ platformRet' # "true")

\* C7's case: UseMainQueueGeneric was called while an item is previewed.
C7_Witness == platformRet = "true" /\ ~hidden /\ CurrentItem # NoItem

\* C8: after hidePreview on a visible widget the cache holds the last bitmap
\* rendered for the item being hidden, for every kind of item: when the
\* screen is up to date and shows the item, the cache is what is on the screen.
C8_CacheHoldsLastRendered ==
    (~hidden /\ CurrentItem # NoItem /\ ~updatePending
        /\ screen.item = CurrentItem.id)
    => ~ENABLED (hidePreview /\ UNCHANGED platformRet /\ cache' # screen)

\* C9: a non-empty cached size equals the size currentDimensions() would
\* compute afresh from the current item, widget size and cached bitmap.
C9_CachedSizeIsFresh ==
    ~isEmpty(cachedSize)
        => cachedSize = currentDimensions(NullSize, gif, cache).size

\* what startShow() leaves behind in each of its two cases
C10_Post ==
    /\ CurrentItem' # NoItem
    /\ ~hidden'
    /\ IF hidden \/ a_shown.animating
       THEN ~hiding' /\ a_shown' = StartAnimation(0, 1)
       ELSE /\ a_shown' = a_shown
            /\ hiding' = hiding
            /\ updatePending'

\* C10: showPreview on a hidden widget, or while a fade animation is running,
\* clears the hiding flag and starts a fade-in from 0 to 1; showPreview on a
\* visible widget with no fade animation running replaces the item and
\* requests a repaint without starting an animation and without changing the
\* hiding flag.
C10_StartShowCases ==
    /\ \A d \in Documents : \A m \in MediaStates(d) :
         Accepted(d) =>
            ~ENABLED (/\ showPreviewDocument(d, m)
                      /\ UNCHANGED platformRet
                      /\ ~(C10_Post /\ document' = d))
    /\ \A p \in Photos : \A m \in MediaStates(p) :
            ~ENABLED (/\ showPreviewPhoto(p, m)
                      /\ UNCHANGED platformRet
                      /\ ~(C10_Post /\ photo' = p))

\* C10's case: an item was set on a visible widget whose fade-out had
\* finished, which left the hiding flag set.
C10_Witness == hiding /\ CurrentItem # NoItem /\ ~hidden /\ ~a_shown.animating

\* the steps that call enableGifPauseReason (startShow() on a hidden widget)
\* and disableGifPauseReason (paintEvent() hiding the widget)
EnableCalled == hidden /\ ~hidden'
DisableCalled == ~hidden /\ hidden'

\* C11: the pause reason MediaPreview is enabled exactly when startShow takes
\* the widget from hidden to visible and disabled exactly when paintEvent
\* hides it after a finished fade-out; enable and disable strictly alternate,
\* starting with enable, and the reason is enabled if and only if the widget
\* is visible.
C11_PauseReasonFollowsVisibility ==
    /\ [](gifPaused <=> ~hidden)
    /\ [][/\ EnableCalled <=> (~gifPaused /\ gifPaused')
          /\ DisableCalled <=> (gifPaused /\ ~gifPaused')
          /\ EnableCalled => (/\ CurrentItem' # NoItem
                              /\ ~hiding' /\ a_shown' = StartAnimation(0, 1))
          /\ DisableCalled => (/\ ~a_shown.animating /\ hiding
                               /\ updatePending /\ ~updatePending')]_vars

\* C11's case: the reason was enabled by a show and disabled again by the
\* paintEvent that hid the widget after the fade-out.
C11_Witness == hidden /\ ~gifPaused /\ hiding /\ screen = NullPixmap /\ ~updatePending

\* the cached bitmap is empty or was rendered from the previewed item
CacheOfCurrentItem == cache = NullPixmap \/ cache.item = CurrentItem.id

\* every accepted showPreview empties the cache and resets the cache status
C12_ShowPreviewEmptiesCache ==
    /\ \A d \in Documents : \A m \in MediaStates(d) :
         Accepted(d) =>
            ~ENABLED (/\ showPreviewDocument(d, m)
                      /\ UNCHANGED platformRet
                      /\ ~(cache' = NullPixmap /\ cacheStatus' = "CacheNotLoaded"))
    /\ \A p \in Photos : \A m \in MediaStates(p) :
            ~ENABLED (/\ showPreviewPhoto(p, m)
                      /\ UNCHANGED platformRet
                      /\ ~(cache' = NullPixmap /\ cacheStatus' = "CacheNotLoaded"))

\* C12: while an item is previewed the cached bitmap is empty or was rendered
\* from that item: every accepted showPreview empties the cache and sets the
\* cache status to CacheNotLoaded, afterwards the cache is written only
\* together with a change of the status to CacheThumbLoaded or CacheLoaded, a
\* status other than CacheNotLoaded implies the bitmap belongs to the current
\* item, and paintEvent never draws a bitmap of another item for it.
C12_CacheBelongsToItem ==
    /\ [](CurrentItem # NoItem => CacheOfCurrentItem)
    /\ [](cacheStatus # "CacheNotLoaded"
            => (CurrentItem # NoItem /\ cache.item = CurrentItem.id))
    /\ []C12_ShowPreviewEmptiesCache
    /\ [][(cache' # cache /\ cache' # NullPixmap /\ CurrentItem' # NoItem)
            => (/\ cacheStatus' # cacheStatus
                /\ cacheStatus' \in {"CacheThumbLoaded", "CacheLoaded"}
                /\ cache'.item = CurrentItem'.id)]_vars
    /\ [][(PaintEvent /\ ~hidden' /\ CurrentItem # NoItem)
            => screen'.item \in {"none", CurrentItem.id}]_vars

\* C12's case: a GIF was set while the screen still shows the photo previewed
\* before it, whose bitmap has been dropped from the cache.
C12_Witness ==
    document.id = "gif" /\ cache = NullPixmap /\ screen.item = "photo" /\ screen.src = "full"

\* the order of the cache statuses
StatusRank(st) ==
    CASE st = "CacheNotLoaded" -> 0
      [] st = "CacheThumbLoaded" -> 1
      [] st = "CacheLoaded" -> 2

\* a step that resets the cache: showPreview or hidePreview
ResetStep == ShowPreviewDocument \/ ShowPreviewPhoto \/ HidePreview

\* C13: between two resets (showPreview or hidePreview) the cache status only
\* moves forward, CacheNotLoaded to CacheThumbLoaded to CacheLoaded: no call
\* of currentImage(), whatever has been loaded, lowers it, a thumbnail never
\* overwrites a cached full image, and for a document that is no sticker the
\* status never reaches CacheLoaded.
C13_CacheStatusMovesForward ==
    /\ [](LET f == currentImage(Now).f
          IN /\ StatusRank(f.cacheStatus) >= StatusRank(cacheStatus)
             /\ cacheStatus = "CacheLoaded" => f.cache = cache)
    /\ []((document # NoItem /\ ~IsSticker(document))
            => (/\ cacheStatus # "CacheLoaded"
                /\ currentImage(Now).f.cacheStatus # "CacheLoaded"))
    /\ [][StatusRank(cacheStatus') < StatusRank(cacheStatus) => ResetStep]_vars
    /\ [][~(cache.src = "full" /\ cache'.src = "thumb")]_vars

\* C13's case: the full image of a photo was cached and painted while a
\* thumbnail of it is loaded too.
C13_Witness ==
    /\ photo # NoItem /\ cacheStatus = "CacheLoaded" /\ media.thumb = "thumbnail"
    /\ screen = cache /\ ~updatePending

\* what a call of currentImage() does to the clip reader in this state
C14_CurrentImageKeepsReader ==
    LET g == currentImage(Now).f.gif
    IN /\ gif.ptr # "null" => g = gif
       /\ (gif.ptr = "null" /\ g # gif)
            => (/\ g = MakeReader
                /\ media.loaded
                /\ document # NoItem /\ ~IsSticker(document))

\* C14: between two resets (showPreview or hidePreview) at most one clip
\* reader is created for a previewed document that is no sticker, and only
\* once the document is loaded; a Reinit notification that finds the reader in
\* the Error state marks it bad, and no later currentImage() call creates
\* another reader until the next reset; a reader is started at most once, only
\* when it is ready and not yet started.
C14_OneClipReaderPerPreview ==
    /\ []C14_CurrentImageKeepsReader
    /\ [](gif.ptr = "reader"
            => ~ENABLED (/\ clipCallbackReinit("Error")
                         /\ UNCHANGED platformRet
                         /\ gif' # BadGif))
    /\ [](gif.ptr # "null" => (document # NoItem /\ ~IsSticker(document)))
    /\ [][(gif.ptr # "reader" /\ gif'.ptr = "reader")
            => (gif.ptr = "null" /\ gif' = MakeReader /\ media.loaded)]_vars
    /\ [][(gif.ptr = "reader" /\ gif'.ptr # "reader")
            => (gif' = BadGif \/ (gif' = NoGif /\ ResetStep))]_vars
    /\ [][(gif.ptr = "bad" /\ gif' # gif) => (gif' = NoGif /\ ResetStep)]_vars
    /\ [][(gif.ptr = "reader" /\ gif'.ptr = "reader" /\ gif'.started # gif.started)
            => (~gif.started /\ gif'.state = "Ready")]_vars

\* C14's case: the reader of the loaded GIF went bad, and a paintEvent after
\* that created no other reader.
C14_Witness ==
    /\ document.id = "gif" /\ gif = BadGif /\ media.loaded
    /\ ~hidden /\ ~updatePending /\ screen.item = "gif"

\* C15: the emoji list has at most kStickerPreviewEmojiLimit (10) entries; it
\* is empty whenever the previewed item is a photo or a document that is no
\* sticker; a sticker whose set provides more than 10 emoji keeps the first 10
\* in the set's order.
C15_EmojiListLimited ==
    /\ Len(emojiList) <= kStickerPreviewEmojiLimit
    /\ (photo # NoItem \/ (document # NoItem /\ ~IsSticker(document)))
         => emojiList = <<>>
    /\ (document # NoItem /\ IsSticker(document)
           /\ document.set > kStickerPreviewEmojiLimit)
         => emojiList = [i \in 1..kStickerPreviewEmojiLimit
                           |-> GetEmojiListFromSet(document)[i]]

\* C15's case: a sticker whose set lists more emoji than the limit is
\* previewed with a list cut to the limit.
C15_Witness ==
    /\ document # NoItem /\ IsSticker(document)
    /\ document.set > kStickerPreviewEmojiLimit
    /\ Len(emojiList) = kStickerPreviewEmojiLimit

====
